---- MODULE Spec2Model ----
(***************************************************************************)
(* Model of addons/cppcheckdata.py: the record builders, the streaming     *)
(* configuration assembler (CppcheckData.iterconfigurations) and the       *)
(* identifier resolver (Configuration.setIdMap).                           *)
(*                                                                         *)
(* A Python value that a relational field can hold is modelled by a record *)
(* [k, s, n]: None, a string (an identifier read from an attribute) or a   *)
(* reference to a record object.  An object is named by its class and by   *)
(* the ordinal of the element that built it inside its dump element.       *)
(***************************************************************************)
EXTENDS Integers, Sequences, FiniteSets, TLC

\* ---------------------------------------------------------------- bounds
\* Record-building elements (directive, token, scope, function, var, values,
\* value) in one document.
MaxElems == 2

\* ---------------------------------------------------------------- values
None == [k |-> "None", s |-> "", n |-> 0]
Str(s) == [k |-> "str", s |-> s, n |-> 0]
Ref(class, n) == [k |-> class, s |-> "", n |-> n]

IsStr(v) == v.k = "str"
IsRef(v) == v.k \in {"Token", "Scope", "Function", "Variable", "values"}
\* Python truth value of an attribute value (None and "" are false).
Truthy(v) == IsStr(v) /\ v.s # ""

\* The reserved identifiers that set_id_map seeds with None.
ZeroIds == {"0", "00000000", "0000000000000000"}
\* Identifiers the analyser issues to records, in the order of issue.
IdNames == <<"A1", "A2">>
IdPool == {IdNames[i] : i \in 1..Len(IdNames)}
\* Position numbers an arg element can carry.
ArgNrs == {1}
\* The cfg attributes of the dump elements of a document, in document
\* order: a document has at most these dump elements.
CfgNames == <<"", "DEBUG">>

\* -------------------------------------------------------- record builders
\* ValueType.__init__
ValueType(element) ==
    [present |-> TRUE,
     typeScopeId |-> element.valueType_typeScope,
     typeScope |-> None]

NoValueType == [present |-> FALSE, typeScopeId |-> None, typeScope |-> None]

\* Token.__init__; elem is the identity of the object built.
Token(element, elem) ==
    [elem |-> elem,
     Id |-> element.id,
     next |-> None,
     previous |-> None,
     scopeId |-> element.scope, scope |-> None,
     linkId |-> element.link, link |-> None,
     variableId |-> element.variable, variable |-> None,
     functionId |-> element.function, function |-> None,
     valuesId |-> element.values, values |-> None,
     valueType |-> IF Truthy(element.valueType_type)
                   THEN ValueType(element) ELSE NoValueType,
     typeScopeId |-> element.type_scope, typeScope |-> None,
     astParentId |-> element.astParent, astParent |-> None,
     astOperand1Id |-> element.astOperand1, astOperand1 |-> None,
     astOperand2Id |-> element.astOperand2, astOperand2 |-> None]

\* Scope.__init__
Scope(element, elem) ==
    [elem |-> elem,
     Id |-> element.id,
     functionId |-> element.function, function |-> None,
     bodyStartId |-> element.bodyStart, bodyStart |-> None,
     bodyEndId |-> element.bodyEnd, bodyEnd |-> None,
     nestedInId |-> element.nestedIn, nestedIn |-> None]

\* Function.__init__; argument is a dict keyed by arg nr, argumentId a dict
\* held as the sequence of its items <<nr, id>> (insertion order).
Function(element, elem) ==
    [isNone |-> FALSE,
     elem |-> elem,
     Id |-> element.id,
     tokenDefId |-> element.tokenDef, tokenDef |-> None,
     argument |-> [nr \in {} |-> None],
     argumentId |-> <<>>]

NoFunction ==
    [isNone |-> TRUE, elem |-> 0, Id |-> None,
     tokenDefId |-> None, tokenDef |-> None,
     argument |-> [nr \in {} |-> None],
     argumentId |-> <<>>]

\* Variable.__init__
Variable(element, elem) ==
    [elem |-> elem,
     Id |-> element.id,
     nameTokenId |-> element.nameToken, nameToken |-> None,
     typeStartTokenId |-> element.typeStartToken, typeStartToken |-> None,
     typeEndTokenId |-> element.typeEndToken, typeEndToken |-> None,
     scopeId |-> element.scope, scope |-> None]

\* Value.__init__: tokvalue is the token-reference payload.
Value(element, elem) ==
    [elem |-> elem, tokvalue |-> element.tokvalue]

\* ValueFlow.__init__
ValueFlow(element, elem) ==
    [isNone |-> FALSE, elem |-> elem, Id |-> element.id, values |-> <<>>]

NoValueFlow == [isNone |-> TRUE, elem |-> 0, Id |-> None, values |-> <<>>]

\* Directive.__init__
Directive(element, elem) == [elem |-> elem]

\* Configuration.__init__
Configuration(name) ==
    [isNone |-> FALSE,
     name |-> name,
     directives |-> <<>>,
     tokenlist |-> <<>>,
     scopes |-> <<>>,
     functions |-> <<>>,
     variables |-> <<>>,
     valueflow |-> <<>>]

NoConfiguration ==
    [isNone |-> TRUE, name |-> None, directives |-> <<>>, tokenlist |-> <<>>,
     scopes |-> <<>>, functions |-> <<>>, variables |-> <<>>, valueflow |-> <<>>]

\* ------------------------------------------------------------- resolver
\* The relational fields a setId method assigns, in the order of its
\* statements: <<field holding the identifier, field assigned>>.
TokenFields ==
    << <<"scopeId", "scope">>, <<"linkId", "link">>,
       <<"variableId", "variable">>, <<"functionId", "function">>,
       <<"valuesId", "values">>, <<"typeScopeId", "typeScope">>,
       <<"astParentId", "astParent">>, <<"astOperand1Id", "astOperand1">>,
       <<"astOperand2Id", "astOperand2">> >>

ValueTypeFields == << <<"typeScopeId", "typeScope">> >>

ScopeFields ==
    << <<"bodyStartId", "bodyStart">>, <<"bodyEndId", "bodyEnd">>,
       <<"nestedInId", "nestedIn">>, <<"functionId", "function">> >>

FunctionFields == << <<"tokenDefId", "tokenDef">> >>

VariableFields ==
    << <<"nameTokenId", "nameToken">>, <<"typeStartTokenId", "typeStartToken">>,
       <<"typeEndTokenId", "typeEndToken">>, <<"scopeId", "scope">> >>

\* A resolver that keeps the reference in the identifier field as well as in
\* the resolved field (what a setId that rewrote its fields in place would
\* do): a second run then looks references up, not identifiers.
RECURSIVE Lookups_in_place(_, _, _)
Lookups_in_place(self, IdMap, fields) ==
    IF fields = <<>> THEN [self |-> self, ok |-> TRUE]
    ELSE LET from == Head(fields)[1]
             to == Head(fields)[2]
         IN  IF self[from] \notin DOMAIN IdMap
             THEN [self |-> self, ok |-> FALSE]
             ELSE Lookups_in_place(
                      [self EXCEPT ![to] = IdMap[self[from]],
                                   ![from] = IdMap[self[from]]],
                      IdMap, Tail(fields))

\* self.f = IdMap[self.fId] for each pair of fields, in order.  A lookup of
\* a key that IdMap does not hold raises KeyError: the statements after it
\* do not run (ok is FALSE and self is as the statements before left it).
RECURSIVE Lookups(_, _, _)
Lookups(self, IdMap, fields) ==
    IF fields = <<>> THEN [self |-> self, ok |-> TRUE]
    ELSE LET from == Head(fields)[1]
             to == Head(fields)[2]
         IN  IF self[from] \notin DOMAIN IdMap
             THEN [self |-> self, ok |-> FALSE]
             ELSE Lookups([self EXCEPT ![to] = IdMap[self[from]]], IdMap,
                          Tail(fields))

\* ValueType.setId
ValueType_setId(self, IdMap) == Lookups(self, IdMap, ValueTypeFields)

\* Token.setId
Token_setId(self, IdMap) ==
    LET r == Lookups(self, IdMap, TokenFields)
    IN  IF r.ok /\ r.self.valueType.present
        THEN LET v == ValueType_setId(r.self.valueType, IdMap)
             IN  [self |-> [r.self EXCEPT !.valueType = v.self], ok |-> v.ok]
        ELSE r

\* Scope.setId
Scope_setId(self, IdMap) == Lookups(self, IdMap, ScopeFields)

\* The loop of Function.setId over argumentId.items(), a dict in insertion
\* order held as a sequence of <<argnr, argid>>.
RECURSIVE ArgumentLookups(_, _, _)
ArgumentLookups(argument, IdMap, items) ==
    IF items = <<>> THEN [argument |-> argument, ok |-> TRUE]
    ELSE LET argnr == Head(items)[1]
             argid == Head(items)[2]
         IN  IF argid \notin DOMAIN IdMap
             THEN [argument |-> argument, ok |-> FALSE]
             ELSE ArgumentLookups(
                      [nr \in DOMAIN argument \cup {argnr} |->
                          IF nr = argnr THEN IdMap[argid] ELSE argument[nr]],
                      IdMap, Tail(items))

\* A Function.setId without the loop over argumentId.
Function_setId_tokenDef_only(self, IdMap) == Lookups(self, IdMap, FunctionFields)

\* Function.setId
Function_setId(self, IdMap) ==
    LET a == ArgumentLookups(self.argument, IdMap, self.argumentId)
        f == [self EXCEPT !.argument = a.argument]
    IN  IF a.ok THEN Lookups(f, IdMap, FunctionFields)
        ELSE [self |-> f, ok |-> FALSE]

\* Variable.setId
Variable_setId(self, IdMap) == Lookups(self, IdMap, VariableFields)

\* for x in list: x.setId(IdMap), stopping at the first KeyError.
RECURSIVE ForEachSetId(_, _, _)
ForEachSetId(list, IdMap, class) ==
    IF list = <<>> THEN [list |-> <<>>, ok |-> TRUE]
    ELSE LET r == CASE class = "Token" -> Token_setId(Head(list), IdMap)
                    [] class = "Scope" -> Scope_setId(Head(list), IdMap)
                    [] class = "Function" -> Function_setId(Head(list), IdMap)
                    [] class = "Variable" -> Variable_setId(Head(list), IdMap)
         IN  IF ~r.ok THEN [list |-> <<r.self>> \o Tail(list), ok |-> FALSE]
             ELSE LET rest == ForEachSetId(Tail(list), IdMap, class)
                  IN  [list |-> <<r.self>> \o rest.list, ok |-> rest.ok]

\* A linking pass that sets next and leaves previous as it was.
RECURSIVE LinkForward(_)
LinkForward(tokenlist) ==
    IF tokenlist = <<>> THEN <<>>
    ELSE LET token == Head(tokenlist)
             rest == Tail(tokenlist)
         IN  <<[token EXCEPT
                  !.next = IF rest = <<>> THEN @
                           ELSE Ref("Token", Head(rest).elem)]>>
             \o LinkForward(rest)

set_tokens_links_forward_only(tokenlist) == LinkForward(tokenlist)

\* Configuration.set_tokens_links: every token gets its predecessor as
\* previous, every token but the last its successor as next.
RECURSIVE LinkFrom(_, _)
LinkFrom(tokenlist, prev) ==
    IF tokenlist = <<>> THEN <<>>
    ELSE LET token == Head(tokenlist)
             rest == Tail(tokenlist)
         IN  <<[token EXCEPT
                  !.previous = prev,
                  !.next = IF rest = <<>> THEN @
                           ELSE Ref("Token", Head(rest).elem)]>>
             \o LinkFrom(rest, Ref("Token", token.elem))

set_tokens_links(tokenlist) == LinkFrom(tokenlist, None)

\* IdMap[key] = value of a Python dict.
DictSet(IdMap, key, value) ==
    [x \in DOMAIN IdMap \cup {key} |-> IF x = key THEN value ELSE IdMap[x]]

\* for x in list: IdMap[x.Id] = x
RECURSIVE Enter(_, _, _)
Enter(IdMap, list, class) ==
    IF list = <<>> THEN IdMap
    ELSE Enter(DictSet(IdMap, Head(list).Id, Ref(class, Head(list).elem)),
               Tail(list), class)

\* The literal IdMap starts from.
ReservedIdMap == [x \in {None} \cup {Str(z) : z \in ZeroIds} |-> None]

\* No dict (before and after set_id_map runs).
NoIdMap == [x \in {} |-> None]

\* A lookup table that holds the tokens only, as it stands when the first
\* fill loop of set_id_map has run and the others have not.
BuildIdMap_tokens_only(config, arguments) ==
    Enter(ReservedIdMap, config.tokenlist, "Token")

\* The first half of Configuration.set_id_map: the lookup table.
BuildIdMap(config, arguments) ==
    LET m1 == Enter(ReservedIdMap, config.tokenlist, "Token")
        m2 == Enter(m1, config.scopes, "Scope")
        m3 == Enter(m2, config.functions, "Function")
        m4 == Enter(m3, config.variables, "Variable")
        m5 == Enter(m4, arguments, "Variable")
    IN  Enter(m5, config.valueflow, "values")

\* The loops of the second half of set_id_map, in the order of the code.
SetIdOrder == <<"tokenlist", "scopes", "functions", "variables", "arguments">>

ClassOf(loop) ==
    CASE loop = "tokenlist" -> "Token"
      [] loop = "scopes" -> "Scope"
      [] loop = "functions" -> "Function"
      [] loop = "variables" -> "Variable"
      [] loop = "arguments" -> "Variable"

\* The second half of set_id_map: the loops in the given order, each over
\* its list, until one raises KeyError.  st holds the configuration, the
\* arguments list and whether no KeyError was raised.
RECURSIVE SetIdLoops(_, _, _)
SetIdLoops(st, Map, loops) ==
    IF loops = <<>> \/ ~st.ok THEN st
    ELSE LET loop == Head(loops)
             list == IF loop = "arguments" THEN st.arguments ELSE st.cfg[loop]
             r == ForEachSetId(list, Map, ClassOf(loop))
         IN  SetIdLoops(
                 [cfg |-> IF loop = "arguments" THEN st.cfg
                          ELSE [st.cfg EXCEPT ![loop] = r.list],
                  arguments |-> IF loop = "arguments" THEN r.list
                                ELSE st.arguments,
                  ok |-> r.ok],
                 Map, Tail(loops))

\* Configuration.set_id_map as a whole.
set_id_map(self, arguments) ==
    SetIdLoops([cfg |-> self, arguments |-> arguments, ok |-> TRUE],
               BuildIdMap(self, arguments), SetIdOrder)

\* list.insert(0, x)
insert_first(list, x) == <<x>> \o list

\* list.append(x)
append(list, x) == Append(list, x)

\* A routing that does not look at iter_varlist.
VarDestination_any_listing(var, in_varlist) ==
    IF Truthy(var.nameTokenId) THEN "variables" ELSE "arguments"

\* Where a var element's record goes: into cfg.variables, into
\* cfg_arguments, or nowhere.
VarDestination(var, in_varlist) ==
    IF Truthy(var.nameTokenId) THEN "variables"
    ELSE IF ~in_varlist THEN "arguments"
    ELSE "none"

\* --------------------------------------------------------------- state
VARIABLES
    pc,              \* where iterconfigurations stands
    doc,             \* the document, as far as the event stream delivered it
    cfg,             \* iterconfigurations: cfg
    cfg_arguments,   \* iterconfigurations: cfg_arguments
    cfg_function,    \* iterconfigurations: cfg_function
    cfg_valueflow,   \* iterconfigurations: cfg_valueflow
    iter_varlist,    \* iterconfigurations: iter_varlist
    IdMap,           \* set_id_map: IdMap, while set_id_map runs
    yielded,         \* the configurations handed to the caller, in order
    resolved_twice   \* the caller ran set_id_map again on the last of them

\* CppcheckData.__init__, the scan of the document root
VARIABLES
    CppcheckData,    \* the class attributes rawTokens and suppressions
    data,            \* the instance under construction: filename, platform
    scan,            \* __init__: its locals and the events still to come
    parsed           \* the documents parsed earlier in this process

\* getArguments
VARIABLES
    call,            \* the token list and AST that ftok belongs to
    returned         \* what getArguments returned

\* iterconfigurations, the elements of the traversal
VARIABLES
    nodes,           \* the elements the parser has built, with their attributes
    loop             \* the loop's position, the open elements, cfg.standards

\* a record builder reading one numeric attribute
VARIABLES
    attribute,       \* the builder's field and the attribute's text
    built            \* the field after construction, or the error raised

iterVars == <<pc, doc, cfg, cfg_arguments, cfg_function, cfg_valueflow,
              iter_varlist, IdMap, yielded, resolved_twice>>
scanVars == <<CppcheckData, data, scan, parsed>>
callVars == <<call, returned>>
streamVars == <<nodes, loop>>
buildVars == <<attribute, built>>

vars == <<iterVars, scanVars, callVars, streamVars, buildVars>>

\* The parts of the program that a specification does not run stay as they
\* are before they start.
ScanIdle ==
    /\ CppcheckData = [rawTokens |-> <<>>, suppressions |-> <<>>]
    /\ data = None
    /\ scan = [pc |-> "idle"]
    /\ parsed = <<>>

CallIdle == call = None /\ returned = None

StreamIdle == nodes = <<>> /\ loop = [pc |-> "idle"]

BuildIdle == attribute = None /\ built = None

IterIdle ==
    /\ pc = "idle"
    /\ doc = [ref |-> "0", dumps |-> 0, open |-> FALSE, log |-> <<>>]
    /\ cfg = NoConfiguration
    /\ cfg_arguments = <<>>
    /\ cfg_function = NoFunction
    /\ cfg_valueflow = NoValueFlow
    /\ iter_varlist = FALSE
    /\ IdMap = NoIdMap
    /\ yielded = <<>>
    /\ resolved_twice = FALSE

\* ------------------------------------------------------ the event stream
\* doc.log lists the record-building elements that have started, in
\* document order: the dump element each lies in, its tag, its id and
\* nameToken attributes and whether it lies in a varlist element.  An
\* object is named by the position in doc.log of the element it was built
\* from.  doc.ref is the string the references of this document carry.
Elem(dump, tag, id, nameToken, varlist) ==
    [dump |-> dump, tag |-> tag, id |-> id, nameToken |-> nameToken,
     varlist |-> varlist]

\* The elements of dump element d, as positions of doc.log.
ElemsOf(d) == {p \in 1..Len(doc.log) : doc.log[p].dump = d}

\* The identifiers issued in the dump element that is open.
Issued ==
    {doc.log[p].id.s : p \in {q \in ElemsOf(doc.dumps) : IsStr(doc.log[q].id)}}

\* An attribute that carries an identifier is absent or carries doc.ref:
\* the documents enumerated are those whose references all carry the same
\* string, a reserved spelling of "no reference" or an identifier.
Identifiers == {None, Str(doc.ref)}

\* The id attribute of a record-issuing element: absent, or the next
\* identifier that no element of this dump has issued yet.
FreshIds ==
    {None} \cup {Str(IdNames[i]) : i \in {j \in 1..Len(IdNames) :
                                             Cardinality(Issued) = j - 1}}

\* The next event is inside a dump element and outside any function and
\* values element; the document has room for one more element.
InDump == pc = "run" /\ doc.open
AtTop == InDump /\ cfg_function.isNone /\ cfg_valueflow.isNone
Room == Len(doc.log) < MaxElems

Started(tag, id, nameToken) ==
    [doc EXCEPT !.log = Append(@, Elem(doc.dumps, tag, id, nameToken,
                                       iter_varlist))]

\* A token element, all of whose relational attributes carry x.
TokenElement(id, x, vt) ==
    [id |-> id, scope |-> x, link |-> x, variable |-> x, function |-> x,
     values |-> x, type_scope |-> x, astParent |-> x, astOperand1 |-> x,
     astOperand2 |-> x,
     valueType_type |-> IF vt THEN Str("int") ELSE None,
     valueType_typeScope |-> IF vt THEN x ELSE None]

ScopeElement(id, x) ==
    [id |-> id, function |-> x, bodyStart |-> x, bodyEnd |-> x, nestedIn |-> x]

FunctionElement(id, x) == [id |-> id, tokenDef |-> x]

\* A var element: all its relational attributes carry x, or it has none.
VarElement(id, x) ==
    [id |-> id, nameToken |-> x, typeStartToken |-> x, typeEndToken |-> x,
     scope |-> x]

Init ==
    /\ pc = "run"
    /\ doc \in [ref : ZeroIds \cup {IdNames[1]}, dumps : {0}, open : {FALSE},
                log : {<<>>}]
    /\ cfg = NoConfiguration
    /\ cfg_arguments = <<>>
    /\ cfg_function = NoFunction
    /\ cfg_valueflow = NoValueFlow
    /\ iter_varlist = FALSE
    /\ IdMap = NoIdMap
    /\ yielded = <<>>
    /\ resolved_twice = FALSE
    /\ ScanIdle /\ CallIdle /\ StreamIdle /\ BuildIdle

\* -------------------------------------------- iterconfigurations: events
\* A generator that goes on to the next dump element without being asked
\* for the next configuration.
DumpStart_without_pull ==
    /\ pc \in {"run", "yield"} /\ ~doc.open /\ doc.dumps < Len(CfgNames)
    /\ doc' = [doc EXCEPT !.dumps = @ + 1, !.open = TRUE]
    /\ cfg' = Configuration(Str(CfgNames[doc.dumps + 1]))
    /\ pc' = "run"
    /\ UNCHANGED <<cfg_arguments, cfg_function, cfg_valueflow,
                   iter_varlist, IdMap, yielded, resolved_twice>>
    /\ UNCHANGED <<scanVars, callVars, streamVars, buildVars>>

\* dump, start
DumpStart ==
    /\ pc = "run" /\ ~doc.open /\ doc.dumps < Len(CfgNames)
    /\ doc' = [doc EXCEPT !.dumps = @ + 1, !.open = TRUE]
    /\ cfg' = Configuration(Str(CfgNames[doc.dumps + 1]))
    /\ UNCHANGED <<pc, cfg_arguments, cfg_function, cfg_valueflow,
                   iter_varlist, IdMap, yielded, resolved_twice>>
    /\ UNCHANGED <<scanVars, callVars, streamVars, buildVars>>

\* directive, start
DirectiveStart ==
    /\ AtTop /\ Room /\ ~iter_varlist
    /\ doc' = Started("directive", None, None)
    /\ cfg' = [cfg EXCEPT !.directives =
                   append(@, Directive([str |-> None], Len(doc'.log)))]
    /\ UNCHANGED <<pc, cfg_arguments, cfg_function, cfg_valueflow,
                   iter_varlist, IdMap, yielded, resolved_twice>>
    /\ UNCHANGED <<scanVars, callVars, streamVars, buildVars>>

\* token, start.  The tokens enumerated are the bare ones (no relational
\* attribute, no valueType) and the ones that carry every relational
\* attribute, valueType-typeScope with its valueType-type included.
TokenStart ==
    /\ AtTop /\ Room /\ ~iter_varlist
    /\ \E id \in FreshIds, x \in Identifiers :
          /\ doc' = Started("token", id, None)
          /\ cfg' = [cfg EXCEPT !.tokenlist =
                         append(@, Token(TokenElement(id, x, x # None),
                                         Len(doc'.log)))]
    /\ UNCHANGED <<pc, cfg_arguments, cfg_function, cfg_valueflow,
                   iter_varlist, IdMap, yielded, resolved_twice>>
    /\ UNCHANGED <<scanVars, callVars, streamVars, buildVars>>

\* scope, start
ScopeStart ==
    /\ AtTop /\ Room /\ ~iter_varlist
    /\ \E id \in FreshIds, x \in Identifiers :
          /\ doc' = Started("scope", id, None)
          /\ cfg' = [cfg EXCEPT !.scopes =
                         append(@, Scope(ScopeElement(id, x), Len(doc'.log)))]
    /\ UNCHANGED <<pc, cfg_arguments, cfg_function, cfg_valueflow,
                   iter_varlist, IdMap, yielded, resolved_twice>>
    /\ UNCHANGED <<scanVars, callVars, streamVars, buildVars>>

\* varlist, start (a child of a scope element)
VarlistStart ==
    /\ AtTop /\ ~iter_varlist
    /\ \E p \in ElemsOf(doc.dumps) : doc.log[p].tag = "scope"
    /\ iter_varlist' = TRUE
    /\ UNCHANGED <<pc, doc, cfg, cfg_arguments, cfg_function, cfg_valueflow,
                   IdMap, yielded, resolved_twice>>
    /\ UNCHANGED <<scanVars, callVars, streamVars, buildVars>>

\* varlist, end
VarlistEnd ==
    /\ AtTop /\ iter_varlist
    /\ iter_varlist' = FALSE
    /\ UNCHANGED <<pc, doc, cfg, cfg_arguments, cfg_function, cfg_valueflow,
                   IdMap, yielded, resolved_twice>>
    /\ UNCHANGED <<scanVars, callVars, streamVars, buildVars>>

\* function, start
FunctionStart ==
    /\ AtTop /\ Room /\ ~iter_varlist
    /\ \E id \in FreshIds, x \in Identifiers :
          /\ doc' = Started("function", id, None)
          /\ cfg_function' = Function(FunctionElement(id, x), Len(doc'.log))
    /\ UNCHANGED <<pc, cfg, cfg_arguments, cfg_valueflow, iter_varlist, IdMap,
                   yielded, resolved_twice>>
    /\ UNCHANGED <<scanVars, callVars, streamVars, buildVars>>

\* arg, start (a child of a function element; one arg per position, its
\* variable attribute present)
ArgStart ==
    /\ InDump /\ ~cfg_function.isNone
    /\ \E arg_nr \in ArgNrs, arg_variable_id \in {Str(doc.ref)} :
          /\ \A i \in 1..Len(cfg_function.argumentId) :
                cfg_function.argumentId[i][1] # arg_nr
          /\ cfg_function' = [cfg_function EXCEPT !.argumentId =
                                  append(@, <<arg_nr, arg_variable_id>>)]
    /\ UNCHANGED <<pc, doc, cfg, cfg_arguments, cfg_valueflow, iter_varlist,
                   IdMap, yielded, resolved_twice>>
    /\ UNCHANGED <<scanVars, callVars, streamVars, buildVars>>

\* function, end
FunctionEnd ==
    /\ InDump /\ ~cfg_function.isNone
    /\ cfg' = [cfg EXCEPT !.functions = append(@, cfg_function)]
    /\ cfg_function' = NoFunction
    /\ UNCHANGED <<pc, doc, cfg_arguments, cfg_valueflow, iter_varlist, IdMap,
                   yielded, resolved_twice>>
    /\ UNCHANGED <<scanVars, callVars, streamVars, buildVars>>

\* var, start: a child of a varlist element when iter_varlist, a child of
\* the variables element otherwise.
VarStart ==
    /\ AtTop /\ Room
    /\ \E id \in FreshIds, x \in Identifiers :
          LET var == Variable(VarElement(id, x), Len(doc'.log))
              to == VarDestination(var, iter_varlist)
          IN  /\ doc' = Started("var", id, x)
              /\ cfg' = IF to = "variables"
                        THEN [cfg EXCEPT !.variables = append(@, var)]
                        ELSE cfg
              /\ cfg_arguments' = IF to = "arguments"
                                  THEN append(cfg_arguments, var)
                                  ELSE cfg_arguments
    /\ UNCHANGED <<pc, cfg_function, cfg_valueflow, iter_varlist, IdMap,
                   yielded, resolved_twice>>
    /\ UNCHANGED <<scanVars, callVars, streamVars, buildVars>>

\* values, start
ValuesStart ==
    /\ AtTop /\ Room /\ ~iter_varlist
    /\ \E id \in FreshIds :
          /\ doc' = Started("values", id, None)
          /\ cfg_valueflow' = ValueFlow([id |-> id], Len(doc'.log))
    /\ UNCHANGED <<pc, cfg, cfg_arguments, cfg_function, iter_varlist, IdMap,
                   yielded, resolved_twice>>
    /\ UNCHANGED <<scanVars, callVars, streamVars, buildVars>>

\* value, start (a child of a values element)
ValueStart ==
    /\ InDump /\ Room /\ ~cfg_valueflow.isNone
    /\ \E tokvalue \in Identifiers :
          /\ doc' = Started("value", None, None)
          /\ cfg_valueflow' = [cfg_valueflow EXCEPT !.values =
                  append(@, Value([tokvalue |-> tokvalue], Len(doc'.log)))]
    /\ UNCHANGED <<pc, cfg, cfg_arguments, cfg_function, iter_varlist, IdMap,
                   yielded, resolved_twice>>
    /\ UNCHANGED <<scanVars, callVars, streamVars, buildVars>>

\* values, end
ValuesEnd ==
    /\ InDump /\ ~cfg_valueflow.isNone
    /\ cfg' = [cfg EXCEPT !.valueflow = append(@, cfg_valueflow)]
    /\ cfg_valueflow' = NoValueFlow
    /\ UNCHANGED <<pc, doc, cfg_arguments, cfg_function, iter_varlist, IdMap,
                   yielded, resolved_twice>>
    /\ UNCHANGED <<scanVars, callVars, streamVars, buildVars>>

\* ------------------------------------- iterconfigurations: dump, end
\* dump, end: cfg.setIdMap(cfg_arguments) runs set_tokens_links and the
\* first half of set_id_map, the six loops that fill IdMap.
DumpEnd ==
    /\ AtTop /\ ~iter_varlist
    /\ doc' = [doc EXCEPT !.open = FALSE]
    /\ cfg' = [cfg EXCEPT !.tokenlist = set_tokens_links(@)]
    /\ IdMap' = BuildIdMap(cfg', cfg_arguments)
    /\ pc' = "setId"
    /\ UNCHANGED <<cfg_arguments, cfg_function, cfg_valueflow, iter_varlist,
                   yielded, resolved_twice>>
    /\ UNCHANGED <<scanVars, callVars, streamVars, buildVars>>

\* A generator that drops a configuration whose resolution raises and goes
\* on with the document.
SetIdMapRewrite_skips_failed ==
    /\ pc = "setId"
    /\ LET r == SetIdLoops([cfg |-> cfg, arguments |-> cfg_arguments, ok |-> TRUE],
                           IdMap, SetIdOrder)
       IN  /\ cfg' = IF r.ok THEN r.cfg ELSE NoConfiguration
           /\ cfg_arguments' = IF r.ok THEN r.arguments ELSE <<>>
           /\ pc' = IF r.ok THEN "yield" ELSE "run"
           /\ yielded' = IF r.ok
                         THEN Append(yielded, [cfg |-> r.cfg, arguments |-> r.arguments])
                         ELSE yielded
    /\ IdMap' = NoIdMap
    /\ UNCHANGED <<doc, cfg_function, cfg_valueflow, iter_varlist,
                   resolved_twice>>
    /\ UNCHANGED <<scanVars, callVars, streamVars, buildVars>>

\* set_id_map, the five loops that call setId; then set_id_map and
\* setIdMap return and the generator reaches its yield, or the KeyError
\* leaves the generator.
SetIdMapRewrite ==
    /\ pc = "setId"
    /\ LET r == SetIdLoops([cfg |-> cfg, arguments |-> cfg_arguments, ok |-> TRUE],
                           IdMap, SetIdOrder)
       IN  /\ cfg' = r.cfg
           /\ cfg_arguments' = r.arguments
           /\ pc' = IF r.ok THEN "yield" ELSE "raised"
           /\ yielded' = IF r.ok
                         THEN Append(yielded, [cfg |-> r.cfg, arguments |-> r.arguments])
                         ELSE yielded
    /\ IdMap' = NoIdMap
    /\ UNCHANGED <<doc, cfg_function, cfg_valueflow, iter_varlist,
                   resolved_twice>>
    /\ UNCHANGED <<scanVars, callVars, streamVars, buildVars>>

\* While the generator is suspended at its yield, the caller runs
\* set_id_map once more on the configuration it was handed, with the same
\* arguments list.
ReResolve ==
    /\ pc = "yield" /\ ~resolved_twice
    /\ LET r == set_id_map(cfg, cfg_arguments)
       IN  /\ cfg' = r.cfg
           /\ cfg_arguments' = r.arguments
           /\ yielded' = [yielded EXCEPT ![Len(yielded)] =
                              [cfg |-> r.cfg, arguments |-> r.arguments]]
           /\ pc' = IF r.ok THEN "yield" ELSE "raised"
    /\ resolved_twice' = TRUE
    /\ UNCHANGED <<doc, cfg_function, cfg_valueflow, iter_varlist, IdMap>>
    /\ UNCHANGED <<scanVars, callVars, streamVars, buildVars>>

\* A resume that resets cfg and keeps cfg_arguments.
Resume_keeps_arguments ==
    /\ pc = "yield"
    /\ cfg' = NoConfiguration
    /\ pc' = "run"
    /\ resolved_twice' = FALSE
    /\ UNCHANGED <<doc, cfg_arguments, cfg_function, cfg_valueflow,
                   iter_varlist, IdMap, yielded>>
    /\ UNCHANGED <<scanVars, callVars, streamVars, buildVars>>

\* The caller asks for the next configuration: the generator resumes after
\* its yield.
Resume ==
    /\ pc = "yield"
    /\ cfg' = NoConfiguration
    /\ cfg_arguments' = <<>>
    /\ pc' = "run"
    /\ resolved_twice' = FALSE
    /\ UNCHANGED <<doc, cfg_function, cfg_valueflow, iter_varlist, IdMap,
                   yielded>>
    /\ UNCHANGED <<scanVars, callVars, streamVars, buildVars>>

\* The event stream ends: the generator returns.
EndOfDocument ==
    /\ pc = "run" /\ ~doc.open
    /\ pc' = "done"
    /\ UNCHANGED <<doc, cfg, cfg_arguments, cfg_function, cfg_valueflow,
                   iter_varlist, IdMap, yielded, resolved_twice>>
    /\ UNCHANGED <<scanVars, callVars, streamVars, buildVars>>

Next ==
    \/ DumpStart
    \/ DirectiveStart
    \/ TokenStart
    \/ ScopeStart
    \/ VarlistStart
    \/ VarlistEnd
    \/ FunctionStart
    \/ ArgStart
    \/ FunctionEnd
    \/ VarStart
    \/ ValuesStart
    \/ ValueStart
    \/ ValuesEnd
    \/ DumpEnd
    \/ SetIdMapRewrite
    \/ ReResolve
    \/ Resume
    \/ EndOfDocument

Spec == Init /\ [][Next]_vars

\* ------------------------------------------------- reading the records
SeqSet(list) == {list[i] : i \in 1..Len(list)}

\* The caller's view while the generator is suspended or has ended: each
\* entry of yielded is a configuration and the argument variables that its
\* functions refer to.
Entries == SeqSet(yielded)

\* <<identifier read from the attribute, field assigned by setId>> for the
\* fields named.
Pairs(rec, fields) == {<<rec[f[1]], rec[f[2]]>> : f \in SeqSet(fields)}

TokenPairs(t) ==
    Pairs(t, TokenFields)
    \cup (IF t.valueType.present THEN Pairs(t.valueType, ValueTypeFields) ELSE {})

\* What reading f.argument[nr] gives when the dict has no key nr.
Unset == Str("<KeyError>")

FunctionPairs(f) ==
    Pairs(f, FunctionFields)
    \cup {<<item[2], IF item[1] \in DOMAIN f.argument
                     THEN f.argument[item[1]] ELSE Unset>> :
             item \in SeqSet(f.argumentId)}

\* Every relational field that set_id_map is to rewrite, in configuration
\* config with argument variables arguments.
SetIdPairs(config, arguments) ==
    UNION ({TokenPairs(t) : t \in SeqSet(config.tokenlist)}
           \cup {Pairs(x, ScopeFields) : x \in SeqSet(config.scopes)}
           \cup {FunctionPairs(f) : f \in SeqSet(config.functions)}
           \cup {Pairs(v, VariableFields) : v \in SeqSet(config.variables)}
           \cup {Pairs(v, VariableFields) : v \in SeqSet(arguments)})

\* The values of the value lists of a configuration.
ValuesOf(config) == UNION {SeqSet(vf.values) : vf \in SeqSet(config.valueflow)}

\* The record that issued identifier id in a configuration, as references.
IssuedBy(id, config, arguments) ==
    {Ref("Token", r.elem) : r \in {t \in SeqSet(config.tokenlist) : t.Id = id}}
    \cup {Ref("Scope", r.elem) : r \in {x \in SeqSet(config.scopes) : x.Id = id}}
    \cup {Ref("Function", r.elem) :
             r \in {f \in SeqSet(config.functions) : f.Id = id}}
    \cup {Ref("Variable", r.elem) :
             r \in {v \in SeqSet(config.variables) \cup SeqSet(arguments) :
                       v.Id = id}}
    \cup {Ref("values", r.elem) :
             r \in {vf \in SeqSet(config.valueflow) : vf.Id = id}}

IsReserved(id) == id = None \/ (IsStr(id) /\ id.s \in ZeroIds)

\* An identifier that no record of the configuration issued.
Dangling(id, config, arguments) ==
    ~IsReserved(id) /\ IssuedBy(id, config, arguments) = {}

\* ---------------------------------------------------------------- C1
\* C1: in every configuration handed to the caller, every relational field
\* whose attribute was present in the input, the token-reference payload of
\* a value included, is a reference or None and no longer an identifier
\* string.
C1_NoIdentifierLeft ==
    \A y \in Entries :
        /\ \A p \in SetIdPairs(y.cfg, y.arguments) : p[1] # None => ~IsStr(p[2])
        /\ \A v \in ValuesOf(y.cfg) : ~IsStr(v.tokvalue)

\* ---------------------------------------------------------------- C2
\* C2: in every configuration handed to the caller, a relational field
\* whose identifier is absent or a reserved all-zero string is None,
\* whatever ids the records of the configuration were issued with.
C2_ReservedIsNone ==
    \A y \in Entries :
        \A p \in SetIdPairs(y.cfg, y.arguments) : IsReserved(p[1]) => p[2] = None

\* ---------------------------------------------------------------- C3
\* C3: a configuration one of whose relational fields (a value's token
\* reference included) carries an identifier that no record of the
\* configuration issued is never handed to the caller: resolution raises
\* instead.
C3_DanglingNeverYielded ==
    \A y \in Entries :
        /\ \A p \in SetIdPairs(y.cfg, y.arguments) :
              ~Dangling(p[1], y.cfg, y.arguments)
        /\ \A v \in ValuesOf(y.cfg) : ~Dangling(v.tokvalue, y.cfg, y.arguments)

\* ---------------------------------------------------------------- C4
\* Orders of the five setId loops other than the order of the code.
OtherOrders ==
    { <<"arguments", "variables", "functions", "scopes", "tokenlist">>,
      <<"functions", "arguments", "tokenlist", "variables", "scopes">>,
      <<"scopes", "tokenlist", "variables", "arguments", "functions">> }

\* The Id of every record that set_id_map enters into the table.
EnteredIds(config, arguments) ==
    {r.Id : r \in SeqSet(config.tokenlist) \cup SeqSet(config.scopes)
                  \cup SeqSet(config.functions) \cup SeqSet(config.variables)
                  \cup SeqSet(arguments) \cup SeqSet(config.valueflow)}

\* C4: when the first setId of set_id_map is about to run, no resolved
\* field has been assigned and the table holds, under the Id of every token,
\* scope, function, variable, argument variable and value list of the
\* configuration, a record that issued it; running the setId loops in
\* another order raises in the same cases and gives the same records;
\* set_id_map raises only when an identifier was issued by no record; and in
\* every configuration handed to the caller each field with a non-reserved
\* identifier is the record that issued it, also when that record comes
\* later in the element stream.
C4_TableBeforeRewrite ==
    /\ pc \in {"run", "setId"} =>
          \A p \in SetIdPairs(cfg, cfg_arguments) : p[2] \in {None, Unset}
    /\ pc = "setId" =>
          /\ \A id \in EnteredIds(cfg, cfg_arguments) :
                id \in DOMAIN IdMap /\ IdMap[id] \in IssuedBy(id, cfg, cfg_arguments)
          /\ LET st == [cfg |-> cfg, arguments |-> cfg_arguments, ok |-> TRUE]
                 a == SetIdLoops(st, IdMap, SetIdOrder)
             IN  \A order \in OtherOrders :
                    LET b == SetIdLoops(st, IdMap, order)
                    IN  a.ok = b.ok /\ (a.ok => a = b)
    /\ pc = "raised" =>
          \E p \in SetIdPairs(cfg, cfg_arguments) :
              Dangling(p[1], cfg, cfg_arguments)
    /\ \A y \in Entries :
          \A p \in SetIdPairs(y.cfg, y.arguments) :
              ~IsReserved(p[1]) => p[2] \in IssuedBy(p[1], y.cfg, y.arguments)

\* A configuration was handed to the caller in which a token's AST parent
\* is a token that comes later in the stream.
C4_ForwardReferenceResolved ==
    \E y \in Entries : \E t \in SeqSet(y.cfg.tokenlist) :
        /\ ~IsReserved(t.astParentId)
        /\ t.astParent \in IssuedBy(t.astParentId, y.cfg, y.arguments)
        /\ t.astParent.n > t.elem

\* ---------------------------------------------------------------- C5
\* A var element without nameToken outside a varlist element.
IsArgumentVar(p) ==
    /\ doc.log[p].tag = "var"
    /\ ~Truthy(doc.log[p].nameToken)
    /\ ~doc.log[p].varlist

\* C5: in every configuration handed to the caller, for every function f
\* and every arg child (nr, id) of f, if id is a non-reserved identifier
\* issued by a var element of the same dump that has no nameToken and lies
\* outside a varlist, f.argument[nr] is the Variable built from that element,
\* wherever the element stands relative to the function element.
C5_ArgumentResolved ==
    \A k \in 1..Len(yielded) :
        \A f \in SeqSet(yielded[k].cfg.functions) :
            \A item \in SeqSet(f.argumentId) :
                \A p \in ElemsOf(k) :
                    (IsArgumentVar(p) /\ ~IsReserved(item[2])
                     /\ doc.log[p].id = item[2])
                    => /\ item[1] \in DOMAIN f.argument
                       /\ f.argument[item[1]] = Ref("Variable", p)

\* A function whose arg refers to an argument variable that comes after the
\* function element was handed to the caller with the argument resolved.
C5_ArgumentAfterFunction ==
    \E k \in 1..Len(yielded) :
        \E f \in SeqSet(yielded[k].cfg.functions) :
            \E item \in SeqSet(f.argumentId) :
                \E p \in ElemsOf(k) :
                    /\ IsArgumentVar(p) /\ doc.log[p].id = item[2]
                    /\ ~IsReserved(item[2])
                    /\ p > f.elem
                    /\ item[1] \in DOMAIN f.argument
                    /\ f.argument[item[1]] = Ref("Variable", p)

\* ---------------------------------------------------------------- C6
\* C6: in every configuration handed to the caller the first token's
\* previous and the last token's next are None, and each token's next is
\* the token after it in the list, whose previous is that token again.
C6_DoublyLinked ==
    \A y \in Entries :
        LET tokenlist == y.cfg.tokenlist
            n == Len(tokenlist)
        IN  /\ n > 0 => tokenlist[1].previous = None /\ tokenlist[n].next = None
            /\ \A i \in 1..(n - 1) :
                  /\ tokenlist[i].next = Ref("Token", tokenlist[i + 1].elem)
                  /\ tokenlist[i + 1].previous = Ref("Token", tokenlist[i].elem)

\* A configuration with more than one token was handed to the caller.
C6_TwoTokensLinked ==
    \E y \in Entries :
        /\ Len(y.cfg.tokenlist) >= 2
        /\ y.cfg.tokenlist[1].next = Ref("Token", y.cfg.tokenlist[2].elem)

\* ---------------------------------------------------------------- C7
\* list holds one record for each element of S and no other, in document
\* order.
Lists(list, S) ==
    /\ Len(list) = Cardinality(S)
    /\ \A i \in 1..Len(list) : list[i].elem \in S
    /\ \A i, j \in 1..Len(list) : i < j => list[i].elem < list[j].elem

Tagged(k, tag) == {p \in ElemsOf(k) : doc.log[p].tag = tag}

\* The dump elements whose end event the generator has got past.
DumpsYielded ==
    IF doc.open \/ pc \in {"setId", "raised"} THEN doc.dumps - 1 ELSE doc.dumps

\* C7: the caller has been handed one configuration for each dump element
\* that has closed, the k-th of them built from the k-th dump element, and
\* its directives, tokenlist, scopes, functions, variables and valueflow
\* lists hold the records of that dump's elements in document order.
C7_OnePerDumpInOrder ==
    /\ Len(yielded) = DumpsYielded
    /\ \A k \in 1..Len(yielded) :
          LET c == yielded[k].cfg
          IN  /\ c.name = Str(CfgNames[k])
              /\ Lists(c.directives, Tagged(k, "directive"))
              /\ Lists(c.tokenlist, Tagged(k, "token"))
              /\ Lists(c.scopes, Tagged(k, "scope"))
              /\ Lists(c.functions, Tagged(k, "function"))
              /\ Lists(c.variables,
                       {p \in Tagged(k, "var") : Truthy(doc.log[p].nameToken)})
              /\ Lists(c.valueflow, Tagged(k, "values"))

\* Two configurations were handed to the caller, the first with two tokens.
C7_TwoConfigurations ==
    /\ Len(yielded) = 2
    /\ Len(yielded[1].cfg.tokenlist) = 2
    /\ yielded[2].cfg.name = Str(CfgNames[2])

\* ---------------------------------------------------------------- C8
\* The elements that the records of a configuration and of its argument
\* variables were built from.
RecordElems(config, arguments) ==
    {r.elem : r \in SeqSet(config.directives) \cup SeqSet(config.tokenlist)
                    \cup SeqSet(config.scopes) \cup SeqSet(config.functions)
                    \cup SeqSet(config.variables) \cup SeqSet(arguments)
                    \cup SeqSet(config.valueflow)}
    \cup {v.elem : v \in ValuesOf(config)}

\* C8: the records of the k-th configuration, of its argument variables and
\* of the lookup table built for it all come from elements of the k-th dump
\* element; a configuration starts with empty lists and empty argument
\* variables.
C8_NoLeakAcrossDumps ==
    /\ \A k \in 1..Len(yielded) :
          RecordElems(yielded[k].cfg, yielded[k].arguments) \subseteq ElemsOf(k)
    /\ ~cfg.isNone =>
          RecordElems(cfg, cfg_arguments) \subseteq ElemsOf(doc.dumps)
    /\ cfg.isNone => cfg_arguments = <<>>
    /\ (doc.open /\ ElemsOf(doc.dumps) = {}) =>
          /\ cfg = Configuration(Str(CfgNames[doc.dumps]))
          /\ cfg_arguments = <<>>
    /\ \A id \in DOMAIN IdMap :
          IsRef(IdMap[id]) => IdMap[id].n \in ElemsOf(doc.dumps)

\* Two configurations were handed to the caller, each with an argument
\* variable of its own.
C8_SecondConfigurationOwnArguments ==
    /\ Len(yielded) = 2
    /\ Len(yielded[1].arguments) = 1
    /\ Len(yielded[2].arguments) = 1
    /\ yielded[2].arguments[1].elem \in ElemsOf(2)

\* ---------------------------------------------------------------- C9
\* How often the record built from element p occurs in list.
Occurrences(list, p) == Cardinality({i \in 1..Len(list) : list[i].elem = p})

\* Every var element of dump element k is in the list its nameToken and
\* varlist decide, once, and in no other.
Routed(k, variables, arguments) ==
    \A p \in Tagged(k, "var") :
        LET named == Truthy(doc.log[p].nameToken)
            listed == doc.log[p].varlist
        IN  /\ Occurrences(variables, p) = (IF named THEN 1 ELSE 0)
            /\ Occurrences(arguments, p) =
                   (IF ~named /\ ~listed THEN 1 ELSE 0)

\* C9: a var element with a nameToken is appended to the configuration's
\* variables, one without nameToken outside a varlist to the argument
\* variables, one without nameToken inside a varlist to neither; none is in
\* both lists.
C9_VarRouting ==
    /\ ~cfg.isNone => Routed(doc.dumps, cfg.variables, cfg_arguments)
    /\ \A k \in 1..Len(yielded) :
          Routed(k, yielded[k].cfg.variables, yielded[k].arguments)

\* A var element without nameToken inside a varlist was read and dropped.
C9_VarDiscarded ==
    /\ ~cfg.isNone
    /\ \E p \in Tagged(doc.dumps, "var") :
          /\ ~Truthy(doc.log[p].nameToken) /\ doc.log[p].varlist
          /\ Occurrences(cfg.variables, p) = 0
          /\ Occurrences(cfg_arguments, p) = 0

\* --------------------------------------------------------------- C10
\* C10: when the caller runs set_id_map a second time on the configuration
\* it was handed, with the same argument variables, the run does not raise
\* and every record of the configuration and of the argument variables is
\* as the first run left it.
C10_SecondRunNoOp ==
    [][(pc = "yield" /\ ~resolved_twice /\ resolved_twice')
       => /\ pc' = "yield"
          /\ cfg' = cfg
          /\ cfg_arguments' = cfg_arguments
          /\ yielded' = yielded]_vars

\* set_id_map ran twice on a configuration with a function whose argument
\* is a Variable.
C10_ResolvedTwice ==
    /\ pc = "yield" /\ resolved_twice
    /\ \E f \in SeqSet(cfg.functions) : \E nr \in DOMAIN f.argument :
          \E a \in SeqSet(cfg_arguments) :
              f.argument[nr] = Ref("Variable", a.elem)

\* --------------------------------------------------------------- C16
\* C16: a var element that starts inside a varlist element is in neither
\* the variables of its configuration nor its argument variables, whatever
\* its attributes.
C16_VarlistVarsDropped ==
    /\ ~cfg.isNone =>
          \A p \in Tagged(doc.dumps, "var") :
              doc.log[p].varlist =>
                  /\ Occurrences(cfg.variables, p) = 0
                  /\ Occurrences(cfg_arguments, p) = 0
    /\ \A k \in 1..Len(yielded) :
          \A p \in Tagged(k, "var") :
              doc.log[p].varlist =>
                  /\ Occurrences(yielded[k].cfg.variables, p) = 0
                  /\ Occurrences(yielded[k].arguments, p) = 0

\* --------------------------------------------------------------- C19
\* The configuration has been through set_tokens_links and set_id_map:
\* linking and resolving it again changes nothing.
Completed(config, arguments) ==
    LET linked == [config EXCEPT !.tokenlist = set_tokens_links(@)]
        r == set_id_map(linked, arguments)
    IN  r.ok /\ r.cfg = config /\ r.arguments = arguments

\* C19: the caller is handed a configuration only by the step that ends its
\* resolution, linked and resolved; while the generator is suspended at its
\* yield no event of the document is read and no record of the configuration
\* changes, and the only step that reads on is the caller's request for the
\* next configuration, which leaves what was handed over as it is.
C19_LazyProducer ==
    [][/\ yielded' # yielded =>
             /\ pc = "setId" /\ pc' = "yield"
             /\ yielded' = Append(yielded,
                                  [cfg |-> cfg', arguments |-> cfg_arguments'])
             /\ Completed(cfg', cfg_arguments')
       /\ pc = "yield" =>
             /\ doc' = doc /\ yielded' = yielded
             /\ pc' = "yield" => (cfg' = cfg /\ cfg_arguments' = cfg_arguments)
             /\ pc' # "yield" => (pc' = "run" /\ cfg'.isNone)]_vars

\* The generator is suspended with a second configuration handed over, one
\* that has tokens, while the document went no further.
C19_SuspendedAtSecond ==
    /\ pc = "yield" /\ Len(yielded) = 2 /\ ~doc.open
    /\ yielded[2].cfg = cfg /\ Len(cfg.tokenlist) > 0

\* --------------------------------------------------------------- C20
\* C20: when set_id_map raises for a configuration, the step that raises
\* hands nothing to the caller and ends the generator: no step follows, so
\* the configurations handed over before stay as they were (all of them
\* linked and resolved) and neither this configuration nor a later one is
\* handed over.
C20_FailureEndsIteration ==
    [][/\ (pc = "setId" /\ \E p \in SetIdPairs(cfg, cfg_arguments) :
                              Dangling(p[1], cfg, cfg_arguments))
          => /\ pc' = "raised"
             /\ yielded' = yielded
             /\ Len(yielded) = doc.dumps - 1
             /\ \A y \in Entries : Completed(y.cfg, y.arguments)
       /\ pc # "raised"]_vars

\* Resolution of the second configuration raised after the first had been
\* handed over.
C20_SecondConfigurationFailed ==
    /\ pc = "raised"
    /\ doc.dumps = 2
    /\ Len(yielded) = 1

\* ======================================================================
\* CppcheckData.__init__: the scan of the document root
\* ======================================================================
\* The most children of the root element of a document, the most children
\* of a rawtokens element, the most constructions of CppcheckData in one
\* process.
MaxTop == 4
MaxRaw == 2
MaxParses == 2

\* ------------------------------------------------------------- int(text)
\* An attribute's text is a sequence of characters.
DigitValue == [c \in {"0", "1"} |-> IF c = "0" THEN 0 ELSE 1]

IsDigits(text) ==
    Len(text) >= 1 /\ \A i \in 1..Len(text) : text[i] \in DOMAIN DigitValue

RECURSIVE Decimal(_)
Decimal(text) ==
    IF text = <<>> THEN 0
    ELSE 10 * Decimal(SubSeq(text, 1, Len(text) - 1)) + DigitValue[text[Len(text)]]

\* int(text) for a string: an optional sign and decimal digits, ValueError
\* for any other text, the empty one included.
int(text) ==
    IF text # <<>> /\ text[1] \in {"-", "+"} /\ IsDigits(Tail(text))
    THEN [ok |-> TRUE,
          value |-> IF text[1] = "-" THEN 0 - Decimal(Tail(text))
                    ELSE Decimal(Tail(text))]
    ELSE IF IsDigits(text) THEN [ok |-> TRUE, value |-> Decimal(text)]
    ELSE [ok |-> FALSE, value |-> 0]

\* files[index] of a Python list: a negative index counts from the end,
\* an index outside the list raises IndexError.
ListItem(list, index) ==
    IF 0 <= index /\ index < Len(list)
    THEN [ok |-> TRUE, value |-> list[index + 1]]
    ELSE IF index < 0 /\ 0 - index <= Len(list)
    THEN [ok |-> TRUE, value |-> list[Len(list) + index + 1]]
    ELSE [ok |-> FALSE, value |-> ""]

\* ----------------------------------------------------------- documents
\* A document is the sequence of the tags of its root's children, with the
\* children of its rawtokens element and of its suppressions element.  The
\* platform, rawtokens and suppressions elements occur at most once, dump
\* elements any number of times, in any order.
FileNode(name) == [tag |-> "file", name |-> name, fileIndex |-> <<>>]
TokNode(fileIndex) == [tag |-> "tok", name |-> "", fileIndex |-> fileIndex]

RawChildren ==
    {FileNode("x.c"), FileNode("y.c"),
     TokNode(<<"0">>), TokNode(<<"1">>), TokNode(<<"-", "1">>)}

SuppressNode == [tag |-> "suppress", errorId |-> "misra-c2012-10.4"]

SeqsUpTo(S, n) == UNION {[1..k -> S] : k \in 0..n}

Count(tops, tag) == Cardinality({i \in 1..Len(tops) : tops[i] = tag})

TopSeqs ==
    {tops \in SeqsUpTo({"platform", "rawtokens", "suppressions", "dump"}, MaxTop) :
        \A tag \in {"platform", "rawtokens", "suppressions"} : Count(tops, tag) <= 1}

Documents ==
    {[tops |-> tops, raw |-> raw, rules |-> rules] :
        tops \in TopSeqs,
        raw \in SeqsUpTo(RawChildren, MaxRaw),
        rules \in {<<>>, <<SuppressNode>>}}

\* The documents that differ: without the element, no children for it.
WellFormed(document) ==
    /\ Count(document.tops, "rawtokens") = 0 => document.raw = <<>>
    /\ Count(document.tops, "suppressions") = 0 => document.rules = <<>>

ChildrenOf(document, top) ==
    IF document.tops[top] = "rawtokens" THEN document.raw
    ELSE IF document.tops[top] = "suppressions" THEN document.rules
    ELSE <<>>

\* The events iterparse delivers for a document, in order.
Event(event, tag, top) == [event |-> event, tag |-> tag, top |-> top]

RECURSIVE ChildEvents(_, _)
ChildEvents(children, top) ==
    IF children = <<>> THEN <<>>
    ELSE <<Event("start", Head(children).tag, top),
           Event("end", Head(children).tag, top)>>
         \o ChildEvents(Tail(children), top)

RECURSIVE TopEvents(_, _)
TopEvents(document, top) ==
    IF top > Len(document.tops) THEN <<>>
    ELSE <<Event("start", document.tops[top], top)>>
         \o ChildEvents(ChildrenOf(document, top), top)
         \o <<Event("end", document.tops[top], top)>>
         \o TopEvents(document, top + 1)

EventsOf(document) ==
    <<Event("start", "dumps", 0)>> \o TopEvents(document, 1)
    \o <<Event("end", "dumps", 0)>>

\* ------------------------------------------------------------- records
\* An object built by the k-th construction of this process from the child
\* at position pos of its element is named by ObjectId(k, pos).
ObjectId(k, pos) == 10 * k + pos

\* Token(rawtokens_node), as far as the scan uses it: the object, its file,
\* its previous and next.
RawToken(k, pos) ==
    [obj |-> ObjectId(k, pos), file |-> None, previous |-> None, next |-> None]

\* Suppression(suppressions_node)
Suppression(k, pos, element) ==
    [obj |-> ObjectId(k, pos), errorId |-> element.errorId]

\* Platform(node)
Platform(k) == [obj |-> ObjectId(k, 0)]

\* The loop over the children of the rawtokens element (750-756).  st holds
\* files, the class's rawTokens list and whether no exception was raised.
RECURSIVE RawtokensLoop(_, _, _, _)
RawtokensLoop(st, children, k, pos) ==
    IF pos > Len(children) \/ ~st.ok THEN st
    ELSE LET rawtokens_node == children[pos]
         IN  IF rawtokens_node.tag = "file"
             THEN RawtokensLoop([st EXCEPT !.files = append(@, rawtokens_node.name)],
                                children, k, pos + 1)
             ELSE LET index == int(rawtokens_node.fileIndex)
                      item == ListItem(st.files, index.value)
                  IN  IF index.ok /\ item.ok
                      THEN RawtokensLoop(
                               [st EXCEPT !.rawTokens =
                                    append(@, [RawToken(k, pos) EXCEPT
                                                  !.file = Str(item.value)])],
                               children, k, pos + 1)
                      ELSE [st EXCEPT !.ok = FALSE]

\* The loop over the children of the suppressions element (759-760).
RECURSIVE SuppressionsLoop(_, _, _, _)
SuppressionsLoop(list, children, k, pos) ==
    IF pos > Len(children) THEN list
    ELSE SuppressionsLoop(append(list, Suppression(k, pos, children[pos])),
                          children, k, pos + 1)

\* Set links between rawTokens (764-766).
LinkRawTokens(rawTokens) ==
    [i \in 1..Len(rawTokens) |->
        [rawTokens[i] EXCEPT
            !.previous = IF i > 1 THEN Ref("Token", rawTokens[i - 1].obj) ELSE @,
            !.next = IF i < Len(rawTokens)
                     THEN Ref("Token", rawTokens[i + 1].obj) ELSE @]]

\* A scan that never breaks off.
AllDone_never(locals) == FALSE

\* The test at the head of the loop body (744).
AllDone(locals) ==
    locals.platform_done /\ locals.rawtokens_done /\ locals.suppressions_done

\* -------------------------------------------------------------- actions
\* CppcheckData(filename): __init__ up to the loop.  A second construction
\* in the same process parses the same document again.
Construct ==
    /\ scan.pc \in {"idle", "constructed", "raised"}
    /\ Len(parsed) < MaxParses
    /\ \E document \in IF parsed = <<>>
                       THEN {d \in Documents : WellFormed(d)}
                       ELSE {parsed[1]} :
          /\ data' = [filename |-> document, platform |-> None]
          /\ scan' = [pc |-> "loop",
                      files |-> <<>>,
                      platform_done |-> FALSE,
                      rawtokens_done |-> FALSE,
                      suppressions_done |-> FALSE,
                      events |-> EventsOf(document),
                      seen |-> <<>>]
          /\ parsed' = Append(parsed, document)
    /\ UNCHANGED <<CppcheckData, iterVars, callVars, streamVars, buildVars>>

\* One pass through the loop body that gets past the test at its head.
\* scan.seen lists the events the body has run for.
ScanEvent ==
    /\ scan.pc = "loop" /\ scan.events # <<>>
    /\ ~AllDone(scan)
    /\ LET e == Head(scan.events)
           k == Len(parsed)
           children == ChildrenOf(data.filename, e.top)
           taken == [scan EXCEPT !.events = Tail(@), !.seen = Append(@, e)]
       IN  IF e.tag = "platform" /\ e.event = "start"
           THEN /\ data' = [data EXCEPT !.platform = Platform(k)]
                /\ scan' = [taken EXCEPT !.platform_done = TRUE]
                /\ UNCHANGED CppcheckData
           ELSE IF e.tag = "rawtokens" /\ e.event = "end"
           THEN LET r == RawtokensLoop([files |-> scan.files,
                                        rawTokens |-> CppcheckData.rawTokens,
                                        ok |-> TRUE], children, k, 1)
                IN  /\ CppcheckData' = [CppcheckData EXCEPT !.rawTokens = r.rawTokens]
                    /\ scan' = IF r.ok
                               THEN [taken EXCEPT !.files = r.files,
                                                  !.rawtokens_done = TRUE]
                               ELSE [taken EXCEPT !.files = r.files,
                                                  !.pc = "raised"]
                    /\ UNCHANGED data
           ELSE IF e.tag = "suppressions" /\ e.event = "end"
           THEN /\ CppcheckData' =
                       [CppcheckData EXCEPT !.suppressions =
                            SuppressionsLoop(@, children, k, 1)]
                /\ scan' = [taken EXCEPT !.suppressions_done = TRUE]
                /\ UNCHANGED data
           ELSE /\ scan' = taken
                /\ UNCHANGED <<CppcheckData, data>>
    /\ UNCHANGED <<parsed, iterVars, callVars, streamVars, buildVars>>

\* The test at the head of the loop body holds for the next event: break,
\* and the links between rawTokens are set.
ScanBreak ==
    /\ scan.pc = "loop" /\ scan.events # <<>>
    /\ AllDone(scan)
    /\ scan' = [scan EXCEPT !.pc = "constructed"]
    /\ CppcheckData' = [CppcheckData EXCEPT !.rawTokens = LinkRawTokens(@)]
    /\ UNCHANGED <<data, parsed, iterVars, callVars, streamVars, buildVars>>

\* The events are exhausted: the loop ends, and the links between rawTokens
\* are set.
ScanEnd ==
    /\ scan.pc = "loop" /\ scan.events = <<>>
    /\ scan' = [scan EXCEPT !.pc = "constructed"]
    /\ CppcheckData' = [CppcheckData EXCEPT !.rawTokens = LinkRawTokens(@)]
    /\ UNCHANGED <<data, parsed, iterVars, callVars, streamVars, buildVars>>

InitScan == IterIdle /\ ScanIdle /\ CallIdle /\ StreamIdle /\ BuildIdle

NextScan ==
    \/ Construct
    \/ ScanEvent
    \/ ScanBreak
    \/ ScanEnd

SpecScan == InitScan /\ [][NextScan]_vars

\* --------------------------------------------------------------- C11
\* The platform element has started and the rawtokens and suppressions
\* elements have ended among the events given.
Observed(events) ==
    /\ \E i \in 1..Len(events) :
          events[i].tag = "platform" /\ events[i].event = "start"
    /\ \E i \in 1..Len(events) :
          events[i].tag = "rawtokens" /\ events[i].event = "end"
    /\ \E i \in 1..Len(events) :
          events[i].tag = "suppressions" /\ events[i].event = "end"

\* C11: the loop body runs for the events of the document in order; it runs
\* for no event after the one with which the platform element has started
\* and the rawtokens and suppressions elements have both ended; and when
\* the scan is over, either those three were observed or the body ran for
\* every event of the document.
C11_ScanStopsWhenObserved ==
    scan.pc \in {"loop", "constructed", "raised"} =>
        /\ scan.seen \o scan.events = EventsOf(data.filename)
        /\ \A n \in 0..(Len(scan.seen) - 1) : ~Observed(SubSeq(scan.seen, 1, n))
        /\ scan.pc = "constructed" =>
              Observed(scan.seen) \/ scan.events = <<>>

\* A scan ended with the three observed while a dump element of the
\* document was still to come.
C11_StoppedBeforeDump ==
    /\ scan.pc = "constructed"
    /\ Observed(scan.seen)
    /\ \E i \in 1..Len(scan.events) : scan.events[i].tag = "dump"

\* --------------------------------------------------------------- C12
\* The names of the file children before position pos, in document order.
RECURSIVE FileTable(_, _)
FileTable(children, pos) ==
    IF pos <= 1 THEN <<>>
    ELSE LET before == FileTable(children, pos - 1)
         IN  IF children[pos - 1].tag = "file"
             THEN before \o <<children[pos - 1].name>>
             ELSE before

\* The k-th document parsed and the children of its rawtokens element.
RawChildrenOf(k) == parsed[k].raw

\* C12: every raw token's file is the entry at the 0-based position given
\* by its tok element's fileIndex in the table of the names of the file
\* children that precede the tok element in the rawtokens element.
C12_FileByIndex ==
    \A i \in 1..Len(CppcheckData.rawTokens) :
        LET tok == CppcheckData.rawTokens[i]
            k == tok.obj \div 10
            pos == tok.obj % 10
            table == FileTable(RawChildrenOf(k), pos)
            index == int(RawChildrenOf(k)[pos].fileIndex).value
        IN  /\ 0 <= index /\ index < Len(table)
            /\ tok.file = Str(table[index + 1])

\* --------------------------------------------------------------- C17
\* The positions of the tok children of the rawtokens element of document.
TokPositions(document) ==
    {pos \in 1..Len(document.raw) : document.raw[pos].tag = "tok"}

\* C17: after a construction, rawTokens holds one raw token for each tok
\* child of the document just parsed and no other, in document order, the
\* first without previous and the last without next, and suppressions
\* holds one suppression for each rule of that document and no other.
C17_OnlyThisDocument ==
    scan.pc = "constructed" =>
        LET k == Len(parsed)
            rawTokens == CppcheckData.rawTokens
            suppressions == CppcheckData.suppressions
            n == Len(rawTokens)
        IN  /\ n = Cardinality(TokPositions(data.filename))
            /\ \A i \in 1..n :
                  /\ rawTokens[i].obj \div 10 = k
                  /\ rawTokens[i].obj % 10 \in TokPositions(data.filename)
            /\ \A i, j \in 1..n : i < j => rawTokens[i].obj < rawTokens[j].obj
            /\ n > 0 => rawTokens[1].previous = None /\ rawTokens[n].next = None
            /\ Len(suppressions) = Len(data.filename.rules)
            /\ \A i \in 1..Len(suppressions) : suppressions[i].obj \div 10 = k

\* ======================================================================
\* getArguments
\* ======================================================================
\* The most tokens in the AST under the second operand of ftok.next.
MaxNodes == 5

\* A token of an AST: its str and its operands, each a token or None.  A
\* token of the tree is named by the path that leads to it from the root,
\* 1 for astOperand1 and 2 for astOperand2.
AstToken(str, astOperand1, astOperand2) ==
    [str |-> str, astOperand1 |-> astOperand1, astOperand2 |-> astOperand2]

RECURSIVE AstsOfSize(_)
AstsOfSize(n) ==
    IF n = 0 THEN {None}
    ELSE UNION {{AstToken(str, a, b) :
                    str \in {",", "a"},
                    a \in AstsOfSize(i),
                    b \in AstsOfSize(n - 1 - i)} : i \in 0..(n - 1)}

Asts == UNION {AstsOfSize(n) : n \in 0..MaxNodes}

\* ftok: isName, and next, which is None or a token with a str and a second
\* AST operand.
Calls ==
    {[isName |-> isName, next |-> None] : isName \in BOOLEAN}
    \cup {[isName |-> isName, next |-> AstToken(str, None, ast)] :
             isName \in BOOLEAN, str \in {"(", ";"}, ast \in Asts}

\* getArgumentsRecursive with operand 2 before operand 1.
RECURSIVE getArgumentsRecursive_operand2_first(_, _, _)
getArgumentsRecursive_operand2_first(tok, path, arguments) ==
    IF tok = None THEN arguments
    ELSE IF tok.str = ","
    THEN getArgumentsRecursive_operand2_first(
             tok.astOperand1, Append(path, 1),
             getArgumentsRecursive_operand2_first(tok.astOperand2,
                                                  Append(path, 2), arguments))
    ELSE append(arguments, path)

\* getArgumentsRecursive(tok, arguments): arguments as the call leaves it.
\* path names tok; appending tok appends its path.
RECURSIVE getArgumentsRecursive(_, _, _)
getArgumentsRecursive(tok, path, arguments) ==
    IF tok = None THEN arguments
    ELSE IF tok.str = ","
    THEN getArgumentsRecursive(
             tok.astOperand2, Append(path, 2),
             getArgumentsRecursive(tok.astOperand1, Append(path, 1), arguments))
    ELSE append(arguments, path)

\* getArguments(ftok): None, or the list args.
getArguments(t) ==
    IF (~t.isName) \/ t.next = None \/ t.next.str # "("
    THEN [isNone |-> TRUE, args |-> <<>>]
    ELSE [isNone |-> FALSE,
          args |-> getArgumentsRecursive(t.next.astOperand2, <<>>, <<>>)]

InitArgs ==
    /\ IterIdle /\ ScanIdle /\ StreamIdle /\ BuildIdle
    /\ call \in {[ftok |-> t, pc |-> "call"] : t \in Calls}
    /\ returned = None

GetArguments ==
    /\ call.pc = "call"
    /\ returned' = getArguments(call.ftok)
    /\ call' = [call EXCEPT !.pc = "returned"]
    /\ UNCHANGED <<iterVars, scanVars, streamVars, buildVars>>

NextArgs == GetArguments

SpecArgs == InitArgs /\ [][NextArgs]_vars

\* --------------------------------------------------------------- C13
\* The token at path in the tree, None when there is none.
RECURSIVE TokenAt(_, _)
TokenAt(tok, path) ==
    IF tok = None \/ path = <<>> THEN tok
    ELSE TokenAt(IF Head(path) = 1 THEN tok.astOperand1 ELSE tok.astOperand2,
                 Tail(path))

Paths == SeqsUpTo({1, 2}, MaxNodes)

\* The tokens that are not commas and have only commas above them.
ArgumentPaths(tree) ==
    {path \in Paths :
        /\ TokenAt(tree, path) # None
        /\ TokenAt(tree, path).str # ","
        /\ \A n \in 0..(Len(path) - 1) :
              TokenAt(tree, SubSeq(path, 1, n)).str = ","}

\* p comes before q in the traversal: where they part, p goes to the first
\* operand and q to the second.
Before(p, q) ==
    \E n \in 1..Len(p) :
        /\ n <= Len(q)
        /\ SubSeq(p, 1, n - 1) = SubSeq(q, 1, n - 1)
        /\ p[n] = 1 /\ q[n] = 2

\* C13: getArguments returns None when ftok is not a name, has no next or
\* its next is not "("; otherwise it returns the tokens under the second
\* operand of "(" that are not commas and lie under commas only, each once,
\* first operands before second operands (the empty list when there is no
\* second operand).
C13_ArgumentsInOrder ==
    call.pc = "returned" =>
        LET t == call.ftok
        IN  IF ~t.isName \/ t.next = None \/ t.next.str # "("
            THEN returned.isNone
            ELSE LET args == returned.args
                     tree == t.next.astOperand2
                 IN  /\ ~returned.isNone
                     /\ SeqSet(args) = ArgumentPaths(tree)
                     /\ \A i, j \in 1..Len(args) : i < j => Before(args[i], args[j])
                     /\ tree = None => args = <<>>
                     /\ tree = AstToken(",", AstToken("a", None, None),
                                        AstToken("a", None, None))
                           => args = << <<1>>, <<2>> >>

\* getArguments returned the three arguments of f ( a , a , a ).
C13_ThreeArguments ==
    /\ call.pc = "returned"
    /\ call.ftok.isName
    /\ ~returned.isNone
    /\ returned.args = << <<1, 1>>, <<1, 2>>, <<2>> >>

\* ======================================================================
\* The record builders reading a numeric attribute
\* ======================================================================
\* The most characters in the text of an attribute.
MaxText == 2

Texts == SeqsUpTo({"0", "1", "-", "x"}, MaxText)

\* The numeric attributes and the form of the statements that read each:
\*   "int"          f = int(element.get(a))
\*   "if-int"       if element.get(a): f = int(element.get(a))
\*   "if-int-else"  x = element.get(a); if x: f = int(x) else: f = 0
\*   "get-if-int"   f = element.get(a); if f: f = int(f)
NumericFields ==
    { [class |-> "Directive", field |-> "linenr", reads |-> "int"],
      [class |-> "ValueType", field |-> "bits", reads |-> "if-int"],
      [class |-> "ValueType", field |-> "constness", reads |-> "if-int-else"],
      [class |-> "ValueType", field |-> "pointer", reads |-> "if-int-else"],
      [class |-> "Token", field |-> "strlen", reads |-> "int"],   \* type="string"
      [class |-> "Token", field |-> "varId", reads |-> "if-int"],
      [class |-> "Token", field |-> "linenr", reads |-> "int"],
      [class |-> "Token", field |-> "column", reads |-> "int"],
      [class |-> "Variable", field |-> "constness", reads |-> "get-if-int"],
      [class |-> "Value", field |-> "intvalue", reads |-> "get-if-int"],
      [class |-> "Value", field |-> "condition", reads |-> "get-if-int"],
      [class |-> "Platform", field |-> "char_bit", reads |-> "int"],
      [class |-> "Platform", field |-> "pointer_bit", reads |-> "int"],
      [class |-> "arg", field |-> "nr", reads |-> "int"],
      [class |-> "tok", field |-> "fileIndex", reads |-> "int"] }

\* What a field holds: the class attribute it was never assigned over, None,
\* an int, or the attribute's text.
ClassDefault == [k |-> "default", text |-> <<>>, n |-> 0]
PyNone == [k |-> "None", text |-> <<>>, n |-> 0]
PyInt(n) == [k |-> "int", text |-> <<>>, n |-> n]
PyStr(text) == [k |-> "str", text |-> text, n |-> 0]

\* element.get(a): the text, or None when the attribute is absent.
Get(a) == IF a.present THEN PyStr(a.text) ELSE PyNone

\* if x: of a string or None
IsTrue(x) == x.k = "str" /\ x.text # <<>>

Raised(error) == [raised |-> TRUE, error |-> error, field |-> ClassDefault]
Assigned(value) == [raised |-> FALSE, error |-> "", field |-> value]

\* int(x) of what element.get returned: TypeError for None, ValueError for
\* a text that is no integer.
IntOf(x) ==
    IF x.k = "None" THEN Raised("TypeError")
    ELSE IF int(x.text).ok THEN Assigned(PyInt(int(x.text).value))
    ELSE Raised("ValueError")

\* The statements that read attribute a, by their form.
BuildField(reads, a) ==
    CASE reads = "int" -> IntOf(Get(a))
      [] reads = "if-int" ->
            IF IsTrue(Get(a)) THEN IntOf(Get(a)) ELSE Assigned(ClassDefault)
      [] reads = "if-int-else" ->
            IF IsTrue(Get(a)) THEN IntOf(Get(a)) ELSE Assigned(PyInt(0))
      [] reads = "get-if-int" ->
            IF IsTrue(Get(a)) THEN IntOf(Get(a)) ELSE Assigned(Get(a))

InitBuild ==
    /\ IterIdle /\ ScanIdle /\ CallIdle /\ StreamIdle
    /\ attribute \in
          {[of |-> f, present |-> TRUE, text |-> text, pc |-> "build"] :
              f \in NumericFields, text \in Texts}
          \cup {[of |-> f, present |-> FALSE, text |-> <<>>, pc |-> "build"] :
                   f \in NumericFields}
    /\ built = None

\* The builder runs.
Build ==
    /\ attribute.pc = "build"
    /\ built' = BuildField(attribute.of.reads, attribute)
    /\ attribute' = [attribute EXCEPT !.pc = "built"]
    /\ UNCHANGED <<iterVars, scanVars, callVars, streamVars>>

NextBuild == Build

SpecBuild == InitBuild /\ [][NextBuild]_vars

\* --------------------------------------------------------------- C15
\* C15: a numeric attribute that is present with a text that is no integer,
\* the empty text included, makes the builder raise; the field is not left
\* at a default or at the text.
C15_BadNumberRaises ==
    (attribute.pc = "built" /\ attribute.present /\ ~int(attribute.text).ok)
    => built.raised

\* ====================================================================
\* iterconfigurations: the elements of the traversal and their release
\* ====================================================================
\* dump elements in one document.
MaxDumps == 2

\* The attributes of an element: cfg (dump), version (c, cpp), id (token);
\* None for an attribute the element does not carry.
NoAttrib == [cfg |-> None, version |-> None, id |-> None]

\* How a c or cpp child of standards can look: not there, there without
\* a version attribute, there with one.
ChildShapes == {"absent", "bare", "version"}

\* The dump elements a document can hold.
DumpShapes ==
    [c : ChildShapes, cpp : ChildShapes, posix : BOOLEAN, tokens : 0..1]

StreamDocuments == UNION {[1..n -> DumpShapes] : n \in 1..MaxDumps}

\* The version texts the analyser writes.
VersionOf(tag) == IF tag = "c" THEN Str("c99") ELSE Str("c++11")

\* Positions of the elements of one dump; ObjectId(k, slot) is the
\* identity of the element object.
Slot(tag) ==
    CASE tag = "dump" -> 1 [] tag = "standards" -> 2 [] tag = "c" -> 3
      [] tag = "cpp" -> 4 [] tag = "posix" -> 5 [] tag = "tokenlist" -> 6
      [] tag = "token" -> 7

RootId == 0

\* The cfg attribute of the k-th dump element.
CfgOf(k) == CfgNames[((k - 1) % Len(CfgNames)) + 1]

StreamEvent(event, k, tag, parent, attrib) ==
    [event |-> event, tag |-> tag, attrib |-> attrib,
     node |-> IF tag = "dumps" THEN RootId ELSE ObjectId(k, Slot(tag)),
     parent |-> IF tag = "dump" THEN RootId ELSE ObjectId(k, Slot(parent))]

\* start and end of an element without children
Leaf(k, tag, parent, attrib) ==
    <<StreamEvent("start", k, tag, parent, attrib),
      StreamEvent("end", k, tag, parent, attrib)>>

VersionChild(k, tag, shape) ==
    IF shape = "absent" THEN <<>>
    ELSE Leaf(k, tag, "standards",
              IF shape = "version"
              THEN [NoAttrib EXCEPT !.version = VersionOf(tag)]
              ELSE NoAttrib)

\* The events iterparse delivers for the k-th dump element.
DumpEvents(k, d) ==
    <<StreamEvent("start", k, "dump", "dumps",
                  [NoAttrib EXCEPT !.cfg = Str(CfgOf(k))]),
      StreamEvent("start", k, "standards", "dump", NoAttrib)>>
    \o VersionChild(k, "c", d.c)
    \o VersionChild(k, "cpp", d.cpp)
    \o (IF d.posix THEN Leaf(k, "posix", "standards", NoAttrib) ELSE <<>>)
    \o <<StreamEvent("end", k, "standards", "dump", NoAttrib),
         StreamEvent("start", k, "tokenlist", "dump", NoAttrib)>>
    \o (IF d.tokens = 1
        THEN Leaf(k, "token", "tokenlist",
                  [NoAttrib EXCEPT !.id = Str(IdNames[1])])
        ELSE <<>>)
    \o <<StreamEvent("end", k, "tokenlist", "dump", NoAttrib),
         StreamEvent("end", k, "dump", "dumps",
                     [NoAttrib EXCEPT !.cfg = Str(CfgOf(k))])>>

RECURSIVE DumpsEvents(_, _)
DumpsEvents(document, k) ==
    IF k > Len(document) THEN <<>>
    ELSE DumpEvents(k, document[k]) \o DumpsEvents(document, k + 1)

\* ElementTree.iterparse(self.filename, events=('start', 'end'))
iterparse(document) ==
    <<[event |-> "start", tag |-> "dumps", attrib |-> NoAttrib,
       node |-> RootId, parent |-> RootId]>>
    \o DumpsEvents(document, 1)
    \o <<[event |-> "end", tag |-> "dumps", attrib |-> NoAttrib,
         node |-> RootId, parent |-> RootId]>>

\* The parser's part of an event: at start it builds the element with its
\* attributes and appends it to its parent's children.
Built(ns, ev) ==
    IF ev.event = "end" THEN ns
    ELSE LET new == ev.node :> [tag |-> ev.tag, attrib |-> ev.attrib,
                                children |-> <<>>]
         IN IF ev.tag = "dumps" THEN new
            ELSE new @@ [ns EXCEPT ![ev.parent].children =
                                       Append(@, ev.node)]

\* Element.clear(): the attributes and the children are dropped.
clear(ns, node) ==
    [ns EXCEPT ![node].attrib = NoAttrib, ![node].children = <<>>]

\* Element.find(tag): the first child with the tag, or 0 for None.
find(ns, node, tag) ==
    LET at == {i \in 1..Len(ns[node].children) :
                   ns[ns[node].children[i]].tag = tag}
    IN IF at = {} THEN 0
       ELSE ns[node].children[CHOOSE i \in at : \A j \in at : i <= j]

\* self.standards = [] of Configuration.__init__
NoStandards == [built |-> FALSE, c |-> None, cpp |-> None, posix |-> FALSE]

\* Standards.__init__: ok is FALSE where find returns None and .get
\* raises AttributeError.
Standards(ns, standardsnode) ==
    LET c == find(ns, standardsnode, "c")
        cpp == find(ns, standardsnode, "cpp")
    IN IF c = 0 \/ cpp = 0
       THEN [ok |-> FALSE, record |-> NoStandards]
       ELSE [ok |-> TRUE,
             record |-> [built |-> TRUE,
                         c |-> ns[c].attrib.version,
                         cpp |-> ns[cpp].attrib.version,
                         posix |-> find(ns, standardsnode, "posix") # 0]]

\* Configuration.__init__, the fields this traversal fills.
StreamConfiguration(name) ==
    [isNone |-> FALSE, name |-> name, standards |-> NoStandards,
     tokenlist |-> <<>>]

StreamNoConfiguration ==
    [isNone |-> TRUE, name |-> None, standards |-> NoStandards,
     tokenlist |-> <<>>]

\* A variant of the chain whose standards branch continues on both events.
Branch_standards_continues(tag, event) ==
    CASE tag = "dump" -> IF event = "start" THEN "dump start" ELSE "dump end"
      [] tag = "standards" -> "standards start"
      [] tag = "tokenlist" /\ event = "start" -> "tokenlist start"
      [] tag = "token" /\ event = "start" -> "token start"
      [] OTHER -> "none"

\* The branch of the if/elif chain that an event takes.
Branch(tag, event) ==
    CASE tag = "dump" -> IF event = "start" THEN "dump start" ELSE "dump end"
      [] tag = "standards" /\ event = "start" -> "standards start"
      [] tag = "standards" /\ event = "end" -> "standards end"
      [] tag = "tokenlist" /\ event = "start" -> "tokenlist start"
      [] tag = "token" /\ event = "start" -> "token start"
      [] OTHER -> "none"

Taken(ev) == [op |-> ev.event, node |-> ev.node]
Cleared(ev) == [op |-> "clear", node |-> ev.node]

InitStream ==
    /\ IterIdle /\ ScanIdle /\ CallIdle /\ BuildIdle
    /\ nodes = <<>>
    /\ \E document \in StreamDocuments :
          loop = [pc |-> "next",
                  document |-> document,
                  events |-> iterparse(document),
                  cfg |-> StreamNoConfiguration,
                  yielded |-> <<>>,
                  trace |-> <<>>]

\* The for statement takes the next event; ev is the event, ns the
\* elements after the parser's part of it.
Takes(branch) ==
    /\ loop.pc = "next"
    /\ loop.events # <<>>
    /\ Branch(Head(loop.events).tag, Head(loop.events).event) = branch

\* A branch that ends in continue.
Continue(ev, config) ==
    /\ nodes' = Built(nodes, ev)
    /\ loop' = [loop EXCEPT !.events = Tail(@), !.cfg = config,
                            !.trace = Append(@, Taken(ev))]

\* A branch that falls through to node.clear().
FallThrough(ev, config) ==
    /\ nodes' = clear(Built(nodes, ev), ev.node)
    /\ loop' = [loop EXCEPT !.events = Tail(@), !.cfg = config,
                            !.trace = @ \o <<Taken(ev), Cleared(ev)>>]

\* An exception leaves the generator.
Raise(ev) ==
    /\ nodes' = Built(nodes, ev)
    /\ loop' = [loop EXCEPT !.pc = "raised", !.events = Tail(@),
                            !.trace = Append(@, Taken(ev))]

StreamDumpStart ==
    /\ Takes("dump start")
    /\ Continue(Head(loop.events),
                StreamConfiguration(Head(loop.events).attrib.cfg))
    /\ UNCHANGED <<iterVars, scanVars, callVars, buildVars>>

\* dump end up to the yield; the token identifiers of this traversal
\* take no part in setIdMap.
StreamDumpEnd ==
    /\ Takes("dump end")
    /\ nodes' = nodes
    /\ loop' = [loop EXCEPT !.pc = "yielded", !.events = Tail(@),
                            !.yielded = Append(@, loop.cfg),
                            !.trace = Append(@, Taken(Head(loop.events)))]
    /\ UNCHANGED <<iterVars, scanVars, callVars, buildVars>>

\* The consumer asks for the next configuration: cfg = None, node.clear().
StreamResume ==
    /\ loop.pc = "yielded"
    /\ nodes' = clear(nodes, loop.trace[Len(loop.trace)].node)
    /\ loop' = [loop EXCEPT !.pc = "next", !.cfg = StreamNoConfiguration,
                            !.trace = Append(@, [op |-> "clear",
                                                 node |-> loop.trace[Len(loop.trace)].node])]
    /\ UNCHANGED <<iterVars, scanVars, callVars, buildVars>>

StreamStandardsStart ==
    /\ Takes("standards start")
    /\ Continue(Head(loop.events), loop.cfg)
    /\ UNCHANGED <<iterVars, scanVars, callVars, buildVars>>

StreamStandardsEnd ==
    /\ Takes("standards end")
    /\ LET ev == Head(loop.events)
           made == Standards(nodes, ev.node)
       IN IF made.ok
          THEN FallThrough(ev, [loop.cfg EXCEPT !.standards = made.record])
          ELSE Raise(ev)
    /\ UNCHANGED <<iterVars, scanVars, callVars, buildVars>>

StreamTokenlistStart ==
    /\ Takes("tokenlist start")
    /\ Continue(Head(loop.events), loop.cfg)
    /\ UNCHANGED <<iterVars, scanVars, callVars, buildVars>>

StreamTokenStart ==
    /\ Takes("token start")
    /\ FallThrough(Head(loop.events),
                   [loop.cfg EXCEPT !.tokenlist =
                       Append(@, [Id |-> Head(loop.events).attrib.id])])
    /\ UNCHANGED <<iterVars, scanVars, callVars, buildVars>>

\* No branch of the chain matches: dumps, c, cpp, posix, and the end of
\* token and tokenlist.
StreamOther ==
    /\ Takes("none")
    /\ FallThrough(Head(loop.events), loop.cfg)
    /\ UNCHANGED <<iterVars, scanVars, callVars, buildVars>>

\* The document is exhausted.
StreamStop ==
    /\ loop.pc = "next"
    /\ loop.events = <<>>
    /\ loop' = [loop EXCEPT !.pc = "done"]
    /\ UNCHANGED <<nodes, iterVars, scanVars, callVars, buildVars>>

NextStream ==
    \/ StreamDumpStart
    \/ StreamDumpEnd
    \/ StreamResume
    \/ StreamStandardsStart
    \/ StreamStandardsEnd
    \/ StreamTokenlistStart
    \/ StreamTokenStart
    \/ StreamOther
    \/ StreamStop

SpecStream == InitStream /\ [][NextStream]_vars

\* --------------------------------------------------------------- C14
HasVersions(d) == d.c = "version" /\ d.cpp = "version"

\* C14: the configuration yielded for a dump whose standards element has
\* c and cpp children with a version attribute holds those two version
\* texts in its standards record.
C14_StandardsHoldVersions ==
    \A k \in 1..Len(loop.yielded) :
        HasVersions(loop.document[k])
        => /\ loop.yielded[k].standards.c = VersionOf("c")
           /\ loop.yielded[k].standards.cpp = VersionOf("cpp")

\* --------------------------------------------------------------- C18
\* The values a configuration handed out holds.
HandedOut(config) ==
    {config.name, config.standards.c, config.standards.cpp}
    \cup {config.tokenlist[i].Id : i \in 1..Len(config.tokenlist)}

====
